---- MODULE Spec2Model ----
(***************************************************************************)
(* Model of src/src/services/geminiService.ts: the interpretation of a     *)
(* GenerateContentResponse by handleApiResponse and by detectObjects, and  *)
(* the exported operations that issue one generateContent call and hand    *)
(* its response to them; and of the two BackgroundPanel components, the    *)
(* gradient panel and the file-upload panel.                               *)
(*                                                                         *)
(* A JavaScript string is a sequence of symbols.  A symbol is a character  *)
(* of a variable text (" ", "x"), a lexical token of a JSON text ("[",     *)
(* "1", "\"cat\""), or one literal chunk of a message template.  String    *)
(* concatenation is \o.  An optional value (undefined or v) is <<>> or     *)
(* <<v>>.                                                                  *)
(***************************************************************************)
EXTENDS Naturals, Sequences, FiniteSets

VARIABLES pc, op, resolution, calls, response, outcome

vars == <<pc, op, resolution, calls, response, outcome>>

----------------------------------------------------------------------------
(* Bounds of the model *)

MaxParts == 2

MaxCandidates == 2

MaxTextLen == 2

MaxJsonLen == 3

----------------------------------------------------------------------------
(* Values *)

None == <<>>

Some(v) == <<v>>

IsSome(o) == o # <<>>

Get(o) == o[1]

Str(s) == <<s>>

EmptyString == <<>>

\* All strings over an alphabet of at most n symbols
Strings(alphabet, n) == UNION {[1..k -> alphabet] : k \in 0..n}

\* All sequences of at most n elements of a set
SeqsUpTo(S, n) == UNION {[1..k -> S] : k \in 0..n}

\* needle occurs in hay as a contiguous substring (String.prototype.includes)
Contains(hay, needle) ==
    \E i \in 1..(Len(hay) + 1) :
        /\ i + Len(needle) - 1 <= Len(hay)
        /\ SubSeq(hay, i, i + Len(needle) - 1) = needle

StartsWith(s, prefix) ==
    /\ Len(prefix) <= Len(s)
    /\ SubSeq(s, 1, Len(prefix)) = prefix

\* JavaScript truthiness of an optional string: undefined and "" are falsy
TruthyString(o) == IsSome(o) /\ Get(o) # EmptyString

WhiteSpace == {" "}

RECURSIVE TrimStart(_)
TrimStart(s) ==
    IF s # <<>> /\ Head(s) \in WhiteSpace THEN TrimStart(Tail(s)) ELSE s

RECURSIVE TrimEnd(_)
TrimEnd(s) ==
    IF s # <<>> /\ s[Len(s)] \in WhiteSpace
    THEN TrimEnd(SubSeq(s, 1, Len(s) - 1))
    ELSE s

\* String.prototype.trim
Trim(s) == TrimEnd(TrimStart(s))

\* The result of a call: a returned value or a thrown Error with a message
Returned(v) == [status |-> "returned", value |-> v]

Threw(message) == [status |-> "threw", value |-> message]

Pending == [status |-> "pending", value |-> <<>>]

----------------------------------------------------------------------------
(* GenerateContentResponse, as far as the service reads it *)

\* BlockedReason values of promptFeedback.blockReason
BlockReasons == {Str("SAFETY")}

BlockReasonMessages == {EmptyString, Str("m")}

\* FinishReason values of a candidate; "STOP" is normal completion
FinishReasons == {Str("STOP"), Str("SAFETY"), Str("MAX_TOKENS")}

TextPart == [inlineData |-> None]

InlinePart(mimeType, data) ==
    [inlineData |-> Some([mimeType |-> mimeType, data |-> data])]

PngPart == InlinePart(Str("image/png"), <<"A", "B">>)

JpegPart == InlinePart(Str("image/jpeg"), <<"C">>)

Parts == {TextPart, PngPart, JpegPart}

\* promptFeedback: absent, present without a block reason, or present
\* with a block reason and an optional message
PromptFeedbacks ==
    {None, Some([blockReason |-> None, blockReasonMessage |-> None])} \cup
    {Some([blockReason |-> Some(b), blockReasonMessage |-> m]) :
        b \in BlockReasons,
        m \in {None} \cup {Some(x) : x \in BlockReasonMessages}}

Contents ==
    {None, Some([parts |-> None])} \cup
    {Some([parts |-> Some(ps)]) : ps \in SeqsUpTo(Parts, MaxParts)}

Candidates ==
    [finishReason : {None} \cup {Some(f) : f \in FinishReasons},
     content : Contents]

\* Candidates after the first: they carry an image and an abnormal finish
\* reason
LaterCandidates ==
    {[finishReason |-> Some(Str("SAFETY")),
      content |-> Some([parts |-> Some(<<JpegPart>>)])]}

CandidateLists ==
    {None, Some(<<>>)} \cup
    {Some(<<c>> \o rest) :
        c \in Candidates, rest \in SeqsUpTo(LaterCandidates, MaxCandidates - 1)}

\* Top-level text of a response to an image request
ImageTexts == {None} \cup {Some(t) : t \in Strings({" ", "x"}, MaxTextLen)}

ImageResponses ==
    [promptFeedback : PromptFeedbacks,
     candidates : CandidateLists,
     text : ImageTexts]

----------------------------------------------------------------------------
(* handleApiResponse *)

\* response.promptFeedback?.blockReason
BlockReasonOf(resp) ==
    IF IsSome(resp.promptFeedback)
    THEN Get(resp.promptFeedback).blockReason
    ELSE None

\* blockReasonMessage || ''
BlockReasonMessageOf(resp) ==
    LET m == Get(resp.promptFeedback).blockReasonMessage
    IN  IF TruthyString(m) THEN Get(m) ELSE EmptyString

BlockedMessage(resp) ==
    Str("Request was blocked. Reason: ") \o Get(BlockReasonOf(resp))
        \o Str(". ") \o BlockReasonMessageOf(resp)

\* Mutant: the last candidate is read instead of the first
FirstCandidate_Last(resp) ==
    IF IsSome(resp.candidates) /\ Len(Get(resp.candidates)) > 0
    THEN Some(Get(resp.candidates)[Len(Get(resp.candidates))])
    ELSE None

\* response.candidates?.[0]
FirstCandidate(resp) ==
    IF IsSome(resp.candidates) /\ Len(Get(resp.candidates)) > 0
    THEN Some(Get(resp.candidates)[1])
    ELSE None

\* response.candidates?.[0]?.content?.parts
FirstCandidateParts(resp) ==
    LET c == FirstCandidate(resp)
    IN  IF IsSome(c) /\ IsSome(Get(c).content)
        THEN Get(Get(c).content).parts
        ELSE None

\* Mutant: the last part carrying inline data is taken
RECURSIVE FindInlinePart_Last(_)
FindInlinePart_Last(parts) ==
    IF parts = <<>> THEN None
    ELSE IF IsSome(parts[Len(parts)].inlineData) THEN Some(parts[Len(parts)])
    ELSE FindInlinePart_Last(SubSeq(parts, 1, Len(parts) - 1))

\* Array.prototype.find(part => part.inlineData)
RECURSIVE FindInlinePart(_)
FindInlinePart(parts) ==
    IF parts = <<>> THEN None
    ELSE IF IsSome(Head(parts).inlineData) THEN Some(Head(parts))
    ELSE FindInlinePart(Tail(parts))

\* response.candidates?.[0]?.content?.parts?.find(part => part.inlineData)
ImagePartFromResponse(resp) ==
    LET ps == FirstCandidateParts(resp)
    IN  IF IsSome(ps) THEN FindInlinePart(Get(ps)) ELSE None

\* Mutant: the MIME type of the part is ignored
DataUrl_FixedMime(inlineData) ==
    Str("data:") \o Str("image/png") \o Str(";base64,") \o inlineData.data

DataUrl(inlineData) ==
    Str("data:") \o inlineData.mimeType \o Str(";base64,") \o inlineData.data

\* response.candidates?.[0]?.finishReason
FinishReasonOf(resp) ==
    LET c == FirstCandidate(resp)
    IN  IF IsSome(c) THEN Get(c).finishReason ELSE None

AbnormalFinishMessage(finishReason, context) ==
    Str("Image generation for ") \o context
        \o Str(" stopped unexpectedly. Reason: ") \o finishReason
        \o Str(". This often relates to safety settings.")

\* Mutant: the text is not trimmed
TextFeedback_NoTrim(resp) == resp.text

\* response.text?.trim()
TextFeedback(resp) ==
    IF IsSome(resp.text) THEN Some(Trim(Get(resp.text))) ELSE None

GenericGuidance ==
    Str("This can happen due to safety filters or if the request is too complex. Please try rephrasing your prompt to be more direct.")

\* Mutant: any text that is present is embedded, also the empty string
NoImageMessage_EmbedsEmptyText(textFeedback, context) ==
    Str("The AI model did not return an image for the ") \o context \o Str(". ")
        \o (IF IsSome(textFeedback)
            THEN Str("The model responded with text: \"") \o Get(textFeedback)
                    \o Str("\"")
            ELSE GenericGuidance)

NoImageMessage(textFeedback, context) ==
    Str("The AI model did not return an image for the ") \o context \o Str(". ")
        \o (IF TruthyString(textFeedback)
            THEN Str("The model responded with text: \"") \o Get(textFeedback)
                    \o Str("\"")
            ELSE GenericGuidance)

\* Mutant: returned text is reported before the finish reason is looked at
NoImageOutcome_TextFirst(resp, context) ==
    LET finishReason == FinishReasonOf(resp)
    IN  IF TruthyString(TextFeedback(resp))
        THEN Threw(NoImageMessage(TextFeedback(resp), context))
        ELSE IF TruthyString(finishReason) /\ Get(finishReason) # Str("STOP")
        THEN Threw(AbnormalFinishMessage(Get(finishReason), context))
        ELSE Threw(NoImageMessage(TextFeedback(resp), context))

\* Mutant: without an image and without an abnormal finish reason the
\* function returns the empty string instead of throwing
NoImageOutcome_ReturnsEmpty(resp, context) ==
    LET finishReason == FinishReasonOf(resp)
    IN  IF TruthyString(finishReason) /\ Get(finishReason) # Str("STOP")
        THEN Threw(AbnormalFinishMessage(Get(finishReason), context))
        ELSE Returned(EmptyString)

\* Step 3 and the final throw: no image part was found
NoImageOutcome(resp, context) ==
    LET finishReason == FinishReasonOf(resp)
    IN  IF TruthyString(finishReason) /\ Get(finishReason) # Str("STOP")
        THEN Threw(AbnormalFinishMessage(Get(finishReason), context))
        ELSE Threw(NoImageMessage(TextFeedback(resp), context))

\* Mutant: the finish reason is looked at before the image part
UnblockedOutcome_FinishReasonFirst(resp, context) ==
    LET imagePart == ImagePartFromResponse(resp)
        finishReason == FinishReasonOf(resp)
    IN  IF TruthyString(finishReason) /\ Get(finishReason) # Str("STOP")
        THEN Threw(AbnormalFinishMessage(Get(finishReason), context))
        ELSE IF IsSome(imagePart)
        THEN Returned(DataUrl(Get(Get(imagePart).inlineData)))
        ELSE NoImageOutcome(resp, context)

\* Mutant: response.candidates[0].content.parts.find(...) without optional
\* chaining, which throws a TypeError on the first undefined link
UnblockedOutcome_NoOptionalChaining(resp, context) ==
    LET imagePart == ImagePartFromResponse(resp)
    IN  IF ~IsSome(FirstCandidateParts(resp))
        THEN Threw(Str("TypeError: Cannot read properties of undefined"))
        ELSE IF IsSome(imagePart)
        THEN Returned(DataUrl(Get(Get(imagePart).inlineData)))
        ELSE NoImageOutcome(resp, context)

\* Steps 2 and 3 and the final throw: the prompt was not blocked
UnblockedOutcome(resp, context) ==
    LET imagePart == ImagePartFromResponse(resp)
    IN  IF IsSome(imagePart)
        THEN Returned(DataUrl(Get(Get(imagePart).inlineData)))
        ELSE NoImageOutcome(resp, context)

\* Mutant: the image part is looked for before the block reason
handleApiResponse_ImageBeforeBlock(resp, context) ==
    LET imagePart == ImagePartFromResponse(resp)
    IN  IF IsSome(imagePart)
        THEN Returned(DataUrl(Get(Get(imagePart).inlineData)))
        ELSE IF TruthyString(BlockReasonOf(resp))
        THEN Threw(BlockedMessage(resp))
        ELSE NoImageOutcome(resp, context)

handleApiResponse(resp, context) ==
    IF TruthyString(BlockReasonOf(resp))
    THEN Threw(BlockedMessage(resp))
    ELSE UnblockedOutcome(resp, context)

----------------------------------------------------------------------------
(* JSON.parse, over the lexical tokens of the text *)

JsonWhiteSpace == {" "}

NumberTokens == {"0", "1", "10"}

StringTokens ==
    {"\"label\"", "\"cat\"", "\"dog\"", "\"box\"",
     "\"x1\"", "\"y1\"", "\"x2\"", "\"y2\""}

JNull == [t |-> "null", v |-> <<>>]

JNumber(tok) == [t |-> "number", v |-> <<tok>>]

JString(tok) == [t |-> "string", v |-> <<tok>>]

JArray(items) == [t |-> "array", v |-> items]

\* members: a sequence of <<key, value>> pairs in source order
JObject(members) == [t |-> "object", v |-> members]

ParseOk(value, rest) == [ok |-> TRUE, value |-> value, rest |-> rest]

ParseFail == [ok |-> FALSE, value |-> JNull, rest |-> <<>>]

RECURSIVE SkipWs(_)
SkipWs(ts) ==
    IF ts # <<>> /\ Head(ts) \in JsonWhiteSpace THEN SkipWs(Tail(ts)) ELSE ts

RECURSIVE ParseValue(_), ParseElements(_, _), ParseMembers(_, _)

\* ts starts at the first token of a value
ParseValue(ts) ==
    IF ts = <<>> THEN ParseFail
    ELSE IF Head(ts) \in NumberTokens THEN ParseOk(JNumber(Head(ts)), Tail(ts))
    ELSE IF Head(ts) \in StringTokens THEN ParseOk(JString(Head(ts)), Tail(ts))
    ELSE IF Head(ts) = "null" THEN ParseOk(JNull, Tail(ts))
    ELSE IF Head(ts) = "[" THEN
        LET rest == SkipWs(Tail(ts))
        IN  IF rest # <<>> /\ Head(rest) = "]"
            THEN ParseOk(JArray(<<>>), Tail(rest))
            ELSE ParseElements(rest, <<>>)
    ELSE IF Head(ts) = "{" THEN
        LET rest == SkipWs(Tail(ts))
        IN  IF rest # <<>> /\ Head(rest) = "}"
            THEN ParseOk(JObject(<<>>), Tail(rest))
            ELSE ParseMembers(rest, <<>>)
    ELSE ParseFail

\* ts starts at an element of an array whose earlier elements are acc
ParseElements(ts, acc) ==
    LET e == ParseValue(ts)
        rest == SkipWs(e.rest)
    IN  IF ~e.ok \/ rest = <<>> THEN ParseFail
        ELSE IF Head(rest) = "]"
        THEN ParseOk(JArray(Append(acc, e.value)), Tail(rest))
        ELSE IF Head(rest) = ","
        THEN ParseElements(SkipWs(Tail(rest)), Append(acc, e.value))
        ELSE ParseFail

\* ts starts at a member of an object whose earlier members are acc
ParseMembers(ts, acc) ==
    IF ts = <<>> \/ Head(ts) \notin StringTokens THEN ParseFail
    ELSE LET colon == SkipWs(Tail(ts))
         IN  IF colon = <<>> \/ Head(colon) # ":" THEN ParseFail
             ELSE LET e == ParseValue(SkipWs(Tail(colon)))
                      rest == SkipWs(e.rest)
                      members == Append(acc, <<Head(ts), e.value>>)
                  IN  IF ~e.ok \/ rest = <<>> THEN ParseFail
                      ELSE IF Head(rest) = "}"
                      THEN ParseOk(JObject(members), Tail(rest))
                      ELSE IF Head(rest) = ","
                      THEN ParseMembers(SkipWs(Tail(rest)), members)
                      ELSE ParseFail

\* JSON.parse(text): the parsed value, or a SyntaxError
JSONparse(text) ==
    LET e == ParseValue(SkipWs(text))
    IN  IF e.ok /\ SkipWs(e.rest) = <<>>
        THEN Returned(e.value)
        ELSE Threw(Str("SyntaxError"))

\* Array.isArray
IsArray(value) == value.t = "array"

----------------------------------------------------------------------------
(* detectObjects, after its generateContent call has resolved *)

CatObject ==
    <<"{", "\"label\"", ":", "\"cat\"", ",", "\"box\"", ":",
      "{", "\"x1\"", ":", "0", ",", "\"y1\"", ":", "0", ",",
           "\"x2\"", ":", "10", ",", "\"y2\"", ":", "10", "}", "}">>

DogObject ==
    <<"{", "\"label\"", ":", "\"dog\"", ",", "\"box\"", ":",
      "{", "\"x1\"", ":", "1", ",", "\"y1\"", ":", "1", ",",
           "\"x2\"", ":", "10", ",", "\"y2\"", ":", "10", "}", "}">>

\* Texts a detection response can carry: every token string up to the
\* bound, and the longer texts below
DetectionSamples ==
    {<<"[">> \o CatObject \o <<"]">>,
     <<" ", "[">> \o CatObject \o <<",", " ">> \o DogObject \o <<"]", " ">>,
     <<"[">> \o DogObject \o <<",">> \o CatObject \o <<"]">>,
     <<"[">> \o CatObject \o <<",", "]">>,
     CatObject,
     <<"{", "}">>,
     <<"not", " ", "json">>,
     <<"null">>,
     <<"\"cat\"">>,
     <<"[", "\"cat\"", ",", "null", ",", "1", "]">>,
     <<"[", "[", "]", ",", "{", "}", "]">>}

DetectionTexts ==
    {None} \cup
    {Some(t) : t \in Strings({" ", "[", "]", ",", "1"}, MaxJsonLen)
                        \cup DetectionSamples}

DetectionResponses ==
    [promptFeedback : PromptFeedbacks,
     candidates : {None, Some(<<>>)},
     text : DetectionTexts]

InvalidFormatMessage ==
    Str("The AI model returned an invalid format for object detection. Please try again.")

\* Mutant: elements that are not objects are dropped from the result
DetectTryBody_DropsNonObjects(resp) ==
    IF ~IsSome(resp.text) THEN Threw(Str("TypeError"))
    ELSE LET jsonText == Trim(Get(resp.text))
             parsed == JSONparse(jsonText)
             IsObject(e) == e.t = "object"
         IN  IF jsonText = EmptyString THEN Returned(<<>>)
             ELSE IF parsed.status = "threw" THEN parsed
             ELSE IF ~IsArray(parsed.value)
             THEN Threw(Str("Parsed JSON is not an array."))
             ELSE Returned(SelectSeq(parsed.value.v, IsObject))

\* Mutant: empty text is handed to JSON.parse
DetectTryBody_NoEmptyCheck(resp) ==
    IF ~IsSome(resp.text) THEN Threw(Str("TypeError"))
    ELSE LET jsonText == Trim(Get(resp.text))
             parsed == JSONparse(jsonText)
         IN  IF parsed.status = "threw" THEN parsed
             ELSE IF ~IsArray(parsed.value)
             THEN Threw(Str("Parsed JSON is not an array."))
             ELSE Returned(parsed.value.v)

\* The body of the try block: what it returns or throws
DetectTryBody(resp) ==
    IF ~IsSome(resp.text) THEN Threw(Str("TypeError"))
    ELSE LET jsonText == Trim(Get(resp.text))
             parsed == JSONparse(jsonText)
         IN  IF jsonText = EmptyString THEN Returned(<<>>)
             ELSE IF parsed.status = "threw" THEN parsed
             ELSE IF ~IsArray(parsed.value)
             THEN Threw(Str("Parsed JSON is not an array."))
             ELSE Returned(parsed.value.v)

\* Mutant: the catch block rethrows the error it caught
DetectTryCatch_Rethrows(resp) == DetectTryBody(resp)

\* try { ... } catch (e) { throw new Error(invalid format) }
DetectTryCatch(resp) ==
    LET body == DetectTryBody(resp)
    IN  IF body.status = "threw" THEN Threw(InvalidFormatMessage) ELSE body

\* Mutant: the text is parsed before the block reason is looked at
DetectObjectsResult_ParseBeforeBlock(resp) ==
    LET parsed == DetectTryCatch(resp)
    IN  IF parsed.status = "returned" THEN parsed
        ELSE IF TruthyString(BlockReasonOf(resp))
        THEN Threw(BlockedMessage(resp))
        ELSE parsed

DetectObjectsResult(resp) ==
    IF TruthyString(BlockReasonOf(resp))
    THEN Threw(BlockedMessage(resp))
    ELSE DetectTryCatch(resp)

----------------------------------------------------------------------------
(* The exported operations.  Each awaits one generateContent call and then *)
(* interprets the response it resolved with.                               *)

Resolutions == {"HD", "FHD", "4K", "8K"}

ImageOperations ==
    {"generateEditedImage", "generateFilteredImage", "generateAdjustedImage",
     "compositeWithBackground", "upscaleImage"}

Init ==
    /\ pc = "idle"
    /\ op = "none"
    /\ resolution = None
    /\ calls = 0
    /\ response = None
    /\ outcome = Pending

\* Mutant: an operation that failed is called again by the operation itself
Invoke_RetriesAfterFailure(operation) ==
    /\ \/ pc = "idle"
       \/ pc = "done" /\ outcome.status = "threw" /\ op = operation /\ calls < 3
    /\ pc' = "awaiting"
    /\ op' = operation
    /\ calls' = calls + 1
    /\ UNCHANGED <<response, outcome>>

\* An operation is called and reaches its await of ai.models.generateContent
Invoke(operation) ==
    /\ pc = "idle"
    /\ pc' = "awaiting"
    /\ op' = operation
    /\ calls' = calls + 1
    /\ UNCHANGED <<response, outcome>>

\* The awaited call resolves with a response; return handleApiResponse(...)
ResolveImage(operation, context) ==
    /\ pc = "awaiting"
    /\ op = operation
    /\ \E r \in ImageResponses :
        /\ response' = Some(r)
        /\ outcome' = handleApiResponse(r, context)
    /\ pc' = "done"
    /\ UNCHANGED <<op, resolution, calls>>

generateEditedImage ==
    Invoke("generateEditedImage") /\ UNCHANGED resolution

generateEditedImageResolved ==
    ResolveImage("generateEditedImage", Str("edit"))

generateFilteredImage ==
    Invoke("generateFilteredImage") /\ UNCHANGED resolution

generateFilteredImageResolved ==
    ResolveImage("generateFilteredImage", Str("filter"))

generateAdjustedImage ==
    Invoke("generateAdjustedImage") /\ UNCHANGED resolution

generateAdjustedImageResolved ==
    ResolveImage("generateAdjustedImage", Str("adjustment"))

compositeWithBackground ==
    Invoke("compositeWithBackground") /\ UNCHANGED resolution

compositeWithBackgroundResolved ==
    ResolveImage("compositeWithBackground", Str("composition"))

upscaleImage ==
    \E res \in Resolutions :
        /\ Invoke("upscaleImage")
        /\ resolution' = Some(res)

\* `upscale to ${resolution}`
UpscaleContext(res) == Str("upscale to ") \o Str(res)

upscaleImageResolved ==
    /\ op = "upscaleImage"
    /\ ResolveImage("upscaleImage", UpscaleContext(Get(resolution)))

detectObjects ==
    Invoke("detectObjects") /\ UNCHANGED resolution

detectObjectsResolved ==
    /\ pc = "awaiting"
    /\ op = "detectObjects"
    /\ \E r \in DetectionResponses :
        /\ response' = Some(r)
        /\ outcome' = DetectObjectsResult(r)
    /\ pc' = "done"
    /\ UNCHANGED <<op, resolution, calls>>

\* The awaited generateContent call rejects: the operation rejects with the
\* same error and interprets nothing
GenerateContentRejected ==
    /\ pc = "awaiting"
    /\ pc' = "done"
    /\ outcome' = Threw(Str("generateContent rejected"))
    /\ UNCHANGED <<op, resolution, calls, response>>

Operations == ImageOperations \cup {"detectObjects"}

\* What fileToPart throws on a data URL it cannot split
FileToPartErrors ==
    {Str("Invalid data URL"), Str("Could not parse MIME type from data URL")}

\* An operation is called and its await of fileToPart rejects: the operation
\* rejects with the same error before it reaches generateContent
FileToPartRejected ==
    /\ pc = "idle"
    /\ \E operation \in Operations, e \in FileToPartErrors :
        /\ op' = operation
        /\ outcome' = Threw(e)
        /\ \/ operation = "upscaleImage" /\ \E res \in Resolutions : resolution' = Some(res)
           \/ operation # "upscaleImage" /\ UNCHANGED resolution
    /\ pc' = "done"
    /\ UNCHANGED <<calls, response>>

Next ==
    \/ FileToPartRejected
    \/ generateEditedImage
    \/ generateEditedImageResolved
    \/ generateFilteredImage
    \/ generateFilteredImageResolved
    \/ generateAdjustedImage
    \/ generateAdjustedImageResolved
    \/ compositeWithBackground
    \/ compositeWithBackgroundResolved
    \/ upscaleImage
    \/ upscaleImageResolved
    \/ detectObjects
    \/ detectObjectsResolved
    \/ GenerateContentRejected

\* The context label the operation in progress passes to handleApiResponse
Context ==
    CASE op = "generateEditedImage" -> Str("edit")
      [] op = "generateFilteredImage" -> Str("filter")
      [] op = "generateAdjustedImage" -> Str("adjustment")
      [] op = "compositeWithBackground" -> Str("composition")
      [] op = "upscaleImage" -> UpscaleContext(Get(resolution))

----------------------------------------------------------------------------
(* What the claims speak of: the response an operation received and the    *)
(* outcome it ended with                                                   *)

\* An image operation has interpreted a response
ImageDone == pc = "done" /\ IsSome(response) /\ op \in ImageOperations

\* detectObjects has interpreted a response
DetectDone == pc = "done" /\ IsSome(response) /\ op = "detectObjects"

Received == Get(response)

\* promptFeedback.blockReason is present
HasBlockReason(r) ==
    /\ r.promptFeedback # None
    /\ Get(r.promptFeedback).blockReason # None

\* The parts of the first candidate; none when a link to them is absent
PartsOfFirst(r) ==
    IF r.candidates = None THEN <<>>
    ELSE IF Get(r.candidates) = <<>> THEN <<>>
    ELSE IF Get(r.candidates)[1].content = None THEN <<>>
    ELSE IF Get(Get(r.candidates)[1].content).parts = None THEN <<>>
    ELSE Get(Get(Get(r.candidates)[1].content).parts)

InlineIndexes(r) ==
    {i \in DOMAIN PartsOfFirst(r) : PartsOfFirst(r)[i].inlineData # None}

HasInlineImage(r) == InlineIndexes(r) # {}

FirstInlineData(r) ==
    LET i == CHOOSE k \in InlineIndexes(r) : \A j \in InlineIndexes(r) : k <= j
    IN  Get(PartsOfFirst(r)[i].inlineData)

\* 'data:' + M + ';base64,' + D of the first inline-data part
ExpectedDataUrl(r) ==
    <<"data:">> \o FirstInlineData(r).mimeType \o <<";base64,">>
        \o FirstInlineData(r).data

\* The finish reason of the first candidate is present and is not STOP
HasAbnormalFinishReason(r) ==
    /\ r.candidates # None
    /\ Get(r.candidates) # <<>>
    /\ Get(r.candidates)[1].finishReason # None
    /\ Get(Get(r.candidates)[1].finishReason) # <<"STOP">>

FinishReasonOfFirst(r) == Get(Get(r.candidates)[1].finishReason)

\* The top-level text is present and is not empty once trimmed
HasTextFeedback(r) == r.text # None /\ Trim(Get(r.text)) # <<>>

IsRequestBlocked(o) ==
    o.status = "threw" /\ StartsWith(o.value, <<"Request was blocked. Reason: ">>)

IsAbnormalFinish(o) ==
    /\ o.status = "threw"
    /\ StartsWith(o.value, <<"Image generation for ">>)
    /\ Contains(o.value, <<" stopped unexpectedly. Reason: ">>)

IsNoImageReturned(o) ==
    /\ o.status = "threw"
    /\ StartsWith(o.value, <<"The AI model did not return an image for the ">>)

IsMalformedDetectionPayload(o) ==
    /\ o.status = "threw"
    /\ o.value = <<"The AI model returned an invalid format for object detection. Please try again.">>

----------------------------------------------------------------------------
(* Claims *)

\* C1: a response whose promptFeedback.blockReason is present makes
\* handleApiResponse throw the 'Request was blocked. Reason: <reason>' error,
\* whatever its candidates, finish reason and text are.
C1_BlockedTakesPrecedence ==
    (ImageDone /\ HasBlockReason(Received)) =>
        /\ IsRequestBlocked(outcome)
        /\ StartsWith(outcome.value,
                      <<"Request was blocked. Reason: ">>
                          \o Get(Get(Received.promptFeedback).blockReason))
        /\ ~IsAbnormalFinish(outcome)
        /\ ~IsNoImageReturned(outcome)

\* C1 witness: a blocked response that also carries an inline image, an
\* abnormal finish reason and text, reported as blocked.
C1_Witness ==
    /\ ImageDone
    /\ HasBlockReason(Received)
    /\ HasInlineImage(Received)
    /\ HasAbnormalFinishReason(Received)
    /\ HasTextFeedback(Received)
    /\ IsRequestBlocked(outcome)

\* C2: a non-blocked response whose first candidate carries inline data
\* makes handleApiResponse return exactly 'data:' + M + ';base64,' + D of the
\* first such part, under every context label.
C2_DataUrlOfFirstImagePart ==
    (ImageDone /\ ~HasBlockReason(Received) /\ HasInlineImage(Received)) =>
        outcome = Returned(ExpectedDataUrl(Received))

\* C2 witness: an upscale returned the JPEG part's data URL.
C2_Witness ==
    /\ ImageDone
    /\ op = "upscaleImage"
    /\ ~HasBlockReason(Received)
    /\ HasInlineImage(Received)
    /\ outcome = Returned(<<"data:", "image/jpeg", ";base64,", "C">>)

\* C3: first match wins: with an inline image in the first candidate of a
\* non-blocked response, an abnormal finish reason or returned text does not
\* pre-empt the image; the data URL is returned.
C3_ImageBeforeFinishReasonAndText ==
    (/\ ImageDone
     /\ ~HasBlockReason(Received)
     /\ HasInlineImage(Received)
     /\ (HasAbnormalFinishReason(Received) \/ HasTextFeedback(Received))) =>
        /\ outcome.status = "returned"
        /\ StartsWith(outcome.value, <<"data:">>)
        /\ ~IsAbnormalFinish(outcome)
        /\ ~IsNoImageReturned(outcome)

\* C3 witness: image, abnormal finish reason and text together, and the
\* image was returned.
C3_Witness ==
    /\ ImageDone
    /\ ~HasBlockReason(Received)
    /\ HasInlineImage(Received)
    /\ HasAbnormalFinishReason(Received)
    /\ HasTextFeedback(Received)
    /\ outcome.status = "returned"

\* C4: no block reason, no inline image, and a finish reason of the first
\* candidate that is present and not STOP: handleApiResponse throws
\* 'Image generation for <context> stopped unexpectedly. Reason: <reason>...',
\* whether or not text is present.
C4_AbnormalFinish ==
    (/\ ImageDone
     /\ ~HasBlockReason(Received)
     /\ ~HasInlineImage(Received)
     /\ HasAbnormalFinishReason(Received)) =>
        /\ IsAbnormalFinish(outcome)
        /\ StartsWith(outcome.value,
                      <<"Image generation for ">> \o Context
                          \o <<" stopped unexpectedly. Reason: ">>
                          \o FinishReasonOfFirst(Received))

\* C4 witness: SAFETY with text present, reported as an abnormal finish.
C4_Witness ==
    /\ ImageDone
    /\ ~HasBlockReason(Received)
    /\ ~HasInlineImage(Received)
    /\ HasAbnormalFinishReason(Received)
    /\ FinishReasonOfFirst(Received) = <<"SAFETY">>
    /\ HasTextFeedback(Received)
    /\ IsAbnormalFinish(outcome)
    /\ Contains(outcome.value, <<"SAFETY">>)

\* C5: no block reason, no inline image, finish reason absent or STOP, and
\* text that is not empty once trimmed: handleApiResponse throws the
\* no-image error whose message holds the context and the trimmed text.
C5_NoImageWithText ==
    (/\ ImageDone
     /\ ~HasBlockReason(Received)
     /\ ~HasInlineImage(Received)
     /\ ~HasAbnormalFinishReason(Received)
     /\ HasTextFeedback(Received)) =>
        /\ IsNoImageReturned(outcome)
        /\ StartsWith(outcome.value,
                      <<"The AI model did not return an image for the ">>
                          \o Context)
        /\ Contains(outcome.value,
                    <<"The model responded with text: \"">>
                        \o Trim(Get(Received.text)) \o <<"\"">>)

\* C5 witness: text with blanks around it, embedded without them.
C5_Witness ==
    /\ ImageDone
    /\ ~HasBlockReason(Received)
    /\ ~HasInlineImage(Received)
    /\ ~HasAbnormalFinishReason(Received)
    /\ Received.text = Some(<<" ", "x">>)
    /\ Contains(outcome.value, <<"The model responded with text: \"", "x", "\"">>)

\* C6: no block reason, no inline image, finish reason absent or STOP, and
\* text absent, empty or blank: handleApiResponse throws the no-image error
\* with the generic guidance and embeds no returned text.
C6_NoImageGeneric ==
    (/\ ImageDone
     /\ ~HasBlockReason(Received)
     /\ ~HasInlineImage(Received)
     /\ ~HasAbnormalFinishReason(Received)
     /\ ~HasTextFeedback(Received)) =>
        /\ IsNoImageReturned(outcome)
        /\ outcome.value =
              <<"The AI model did not return an image for the ">> \o Context
                  \o <<". ">> \o GenericGuidance
        /\ ~Contains(outcome.value, <<"The model responded with text: \"">>)

\* C6 witness: blank text and a STOP finish reason, answered with the
\* generic guidance.
C6_Witness ==
    /\ ImageDone
    /\ ~HasBlockReason(Received)
    /\ ~HasInlineImage(Received)
    /\ Received.candidates # None
    /\ Get(Received.candidates) # <<>>
    /\ Get(Received.candidates)[1].finishReason = Some(<<"STOP">>)
    /\ Received.text = Some(<<" ">>)
    /\ Contains(outcome.value, GenericGuidance)

\* A link on the way to the parts of the first candidate is absent
MissingStructure(r) ==
    \/ r.candidates = None
    \/ Get(r.candidates) = <<>>
    \/ Get(r.candidates)[1].content = None
    \/ Get(Get(r.candidates)[1].content).parts = None

\* C7: when candidates is absent or empty, or the first candidate's content
\* or its parts is absent, a non-blocked response is treated as having no
\* image part: the outcome is the abnormal-finish error if the first
\* candidate has an abnormal finish reason and the no-image error otherwise,
\* never another error.
C7_MissingStructureFallsThrough ==
    (ImageDone /\ ~HasBlockReason(Received) /\ MissingStructure(Received)) =>
        /\ IsAbnormalFinish(outcome) \/ IsNoImageReturned(outcome)
        /\ IsAbnormalFinish(outcome) <=> HasAbnormalFinishReason(Received)

\* C7 witness: a first candidate without content and with finish reason
\* SAFETY, reported as an abnormal finish.
C7_Witness ==
    /\ ImageDone
    /\ ~HasBlockReason(Received)
    /\ Received.candidates # None
    /\ Get(Received.candidates) # <<>>
    /\ Get(Received.candidates)[1].content = None
    /\ HasAbnormalFinishReason(Received)
    /\ IsAbnormalFinish(outcome)

\* The response r with the parts of its first candidate replaced by ps
WithPartsOfFirst(r, ps) ==
    [r EXCEPT !.candidates =
        Some([Get(r.candidates) EXCEPT ![1].content = Some([parts |-> Some(ps)])])]

FirstInlineIndex(r) ==
    CHOOSE k \in InlineIndexes(r) : \A j \in InlineIndexes(r) : k <= j

\* C8: with several parts in the first candidate, the result is built from
\* the first part that carries inline data: parts before it are skipped and
\* parts after it do not change the result.
C8_FirstInlinePartOnly ==
    (/\ ImageDone
     /\ ~HasBlockReason(Received)
     /\ HasInlineImage(Received)
     /\ Len(PartsOfFirst(Received)) > 1) =>
        /\ outcome = Returned(ExpectedDataUrl(Received))
        /\ outcome =
              handleApiResponse(
                  WithPartsOfFirst(Received,
                      <<PartsOfFirst(Received)[FirstInlineIndex(Received)]>>),
                  Context)

\* C8 witness: two different inline parts, the first one returned.
C8_Witness ==
    /\ ImageDone
    /\ ~HasBlockReason(Received)
    /\ PartsOfFirst(Received) = <<PngPart, JpegPart>>
    /\ outcome = Returned(<<"data:", "image/png", ";base64,", "A", "B">>)

\* C9: in detectObjects a response whose promptFeedback.blockReason is
\* present throws the 'Request was blocked' error whatever its text is; it
\* yields neither objects nor the invalid-format error.
C9_DetectBlockedFirst ==
    (DetectDone /\ HasBlockReason(Received)) =>
        /\ IsRequestBlocked(outcome)
        /\ StartsWith(outcome.value,
                      <<"Request was blocked. Reason: ">>
                          \o Get(Get(Received.promptFeedback).blockReason))
        /\ ~IsMalformedDetectionPayload(outcome)

\* C9 witness: a blocked detection response whose text is a valid array.
C9_Witness ==
    /\ DetectDone
    /\ HasBlockReason(Received)
    /\ Received.text = Some(<<"[">> \o CatObject \o <<"]">>)
    /\ IsRequestBlocked(outcome)

\* The text is present and is empty once trimmed
HasBlankText(r) == r.text # None /\ Trim(Get(r.text)) = <<>>

\* The text is '[]' once trimmed
HasEmptyArrayText(r) == r.text # None /\ Trim(Get(r.text)) = <<"[", "]">>

\* C10: in detectObjects a non-blocked response whose text is empty or
\* blank returns an empty sequence of objects, and so does the text '[]'.
C10_DetectEmptyIsSuccess ==
    (/\ DetectDone
     /\ ~HasBlockReason(Received)
     /\ (HasBlankText(Received) \/ HasEmptyArrayText(Received))) =>
        outcome = Returned(<<>>)

\* C10 witness: blank text returned an empty sequence.
C10_Witness ==
    /\ DetectDone
    /\ ~HasBlockReason(Received)
    /\ Received.text = Some(<<" ", " ">>)
    /\ outcome = Returned(<<>>)

\* The text is present, is not empty once trimmed, and is not a JSON array:
\* it does not parse, or it parses to another kind of value
HasNonArrayText(r) ==
    /\ r.text # None
    /\ Trim(Get(r.text)) # <<>>
    /\ \/ JSONparse(Trim(Get(r.text))).status = "threw"
       \/ JSONparse(Trim(Get(r.text))).value.t # "array"

\* C11: in detectObjects a non-blocked response whose trimmed text is not
\* empty and does not parse, or parses to a value that is not an array,
\* throws the invalid-format error; the caller never receives the internal
\* 'Parsed JSON is not an array.' error or a SyntaxError.
C11_DetectMalformedPayload ==
    /\ (DetectDone /\ ~HasBlockReason(Received) /\ HasNonArrayText(Received)) =>
            IsMalformedDetectionPayload(outcome)
    /\ (DetectDone /\ outcome.status = "threw") =>
            /\ outcome.value # <<"Parsed JSON is not an array.">>
            /\ outcome.value # <<"SyntaxError">>
    /\ (/\ DetectDone
        /\ ~HasBlockReason(Received)
        /\ Received.text \in {Some(<<"not", " ", "json">>), Some(<<"{", "}">>),
                              Some(<<"null">>), Some(<<"1">>),
                              Some(<<"[", "1", ",", "]">>), Some(CatObject)}) =>
            IsMalformedDetectionPayload(outcome)

\* C11 witness: the text '{}' parses to an object and is answered with the
\* invalid-format error.
C11_Witness ==
    /\ DetectDone
    /\ ~HasBlockReason(Received)
    /\ Received.text = Some(<<"{", "}">>)
    /\ IsMalformedDetectionPayload(outcome)

\* The text is present and parses, once trimmed, to a JSON array
HasArrayText(r) ==
    /\ r.text # None
    /\ JSONparse(Trim(Get(r.text))).status = "returned"
    /\ JSONparse(Trim(Get(r.text))).value.t = "array"

\* The number of elements of a JSON array text: one more than its commas
\* outside nested brackets, none for '[]'
RECURSIVE TopLevelCommas(_, _)
TopLevelCommas(ts, depth) ==
    IF ts = <<>> THEN 0
    ELSE IF Head(ts) \in {"[", "{"} THEN TopLevelCommas(Tail(ts), depth + 1)
    ELSE IF Head(ts) \in {"]", "}"} THEN TopLevelCommas(Tail(ts), depth - 1)
    ELSE IF Head(ts) = "," /\ depth = 1 THEN 1 + TopLevelCommas(Tail(ts), depth)
    ELSE TopLevelCommas(Tail(ts), depth)

ElementCount(text) ==
    IF SelectSeq(Trim(text), LAMBDA t : t \notin JsonWhiteSpace) = <<"[", "]">>
    THEN 0
    ELSE 1 + TopLevelCommas(text, 0)

CatValue ==
    JObject(<< <<"\"label\"", JString("\"cat\"")>>,
               <<"\"box\"",
                 JObject(<< <<"\"x1\"", JNumber("0")>>, <<"\"y1\"", JNumber("0")>>,
                            <<"\"x2\"", JNumber("10")>>, <<"\"y2\"", JNumber("10")>> >>)>> >>)

\* C12: in detectObjects a non-blocked response whose trimmed text parses to
\* a JSON array returns the parsed elements, all of them and in their order,
\* whatever each element is.
C12_DetectReturnsParsedArray ==
    /\ (DetectDone /\ ~HasBlockReason(Received) /\ HasArrayText(Received)) =>
            /\ outcome.status = "returned"
            /\ outcome.value = JSONparse(Trim(Get(Received.text))).value.v
            /\ Len(outcome.value) = ElementCount(Get(Received.text))
    /\ (/\ DetectDone
        /\ ~HasBlockReason(Received)
        /\ Received.text = Some(<<"[">> \o CatObject \o <<"]">>)) =>
            outcome = Returned(<<CatValue>>)
    /\ (/\ DetectDone
        /\ ~HasBlockReason(Received)
        /\ Received.text = Some(<<"[", "\"cat\"", ",", "null", ",", "1", "]">>)) =>
            outcome = Returned(<<JString("\"cat\""), JNull, JNumber("1")>>)

\* C12 witness: the text '[dog, cat]' returned two objects, the dog first.
C12_Witness ==
    /\ DetectDone
    /\ ~HasBlockReason(Received)
    /\ Received.text = Some(<<"[">> \o DogObject \o <<",">> \o CatObject \o <<"]">>)
    /\ outcome.status = "returned"
    /\ Len(outcome.value) = 2
    /\ outcome.value[2] = CatValue
    /\ outcome.value[1] # CatValue

\* The five outcomes of handleApiResponse, told apart by what the caller
\* receives
IsImageDataUrl(o) ==
    /\ o.status = "returned"
    /\ StartsWith(o.value, <<"data:">>)
    /\ Contains(o.value, <<";base64,">>)

IsNoImageWithText(o) ==
    /\ IsNoImageReturned(o)
    /\ Contains(o.value, <<"The model responded with text: \"">>)

IsNoImageGeneric(o) ==
    /\ IsNoImageReturned(o)
    /\ Contains(o.value, GenericGuidance)

OutcomeKinds(o) ==
    {k \in {"RequestBlocked", "ImageDataUrl", "AbnormalFinish",
            "NoImageWithText", "NoImageGeneric"} :
        \/ k = "RequestBlocked" /\ IsRequestBlocked(o)
        \/ k = "ImageDataUrl" /\ IsImageDataUrl(o)
        \/ k = "AbnormalFinish" /\ IsAbnormalFinish(o)
        \/ k = "NoImageWithText" /\ IsNoImageWithText(o)
        \/ k = "NoImageGeneric" /\ IsNoImageGeneric(o)}

\* C14: handleApiResponse is total and its outcomes exclude each other:
\* whatever the response, exactly one of the five outcomes occurs; it returns
\* nothing but a data URL and throws nothing but the four errors.
C14_ExactlyOneOutcome ==
    ImageDone =>
        /\ outcome.status \in {"returned", "threw"}
        /\ Cardinality(OutcomeKinds(outcome)) = 1

\* C14 witness: a response with no field present at all ended in the
\* generic no-image error and in no other outcome.
C14_Witness ==
    /\ ImageDone
    /\ Received = [promptFeedback |-> None, candidates |-> None, text |-> None]
    /\ OutcomeKinds(outcome) = {"NoImageGeneric"}

\* A candidate after the first carries an inline image
LaterCandidateHasImage(r) ==
    /\ r.candidates # None
    /\ \E i \in 2..Len(Get(r.candidates)) :
          LET c == Get(r.candidates)[i]
          IN  /\ c.content # None
              /\ Get(c.content).parts # None
              /\ \E j \in DOMAIN Get(Get(c.content).parts) :
                    Get(Get(c.content).parts)[j].inlineData # None

\* C16: only the first candidate is inspected: a non-blocked response whose
\* first candidate has no inline image never succeeds, also when a later
\* candidate carries one, and the abnormal-finish decision and message use
\* the finish reason of the first candidate.
C16_FirstCandidateOnly ==
    (ImageDone /\ ~HasBlockReason(Received) /\ ~HasInlineImage(Received)) =>
        /\ outcome.status = "threw"
        /\ IsAbnormalFinish(outcome) <=> HasAbnormalFinishReason(Received)
        /\ IsAbnormalFinish(outcome) =>
              Contains(outcome.value,
                       <<" stopped unexpectedly. Reason: ">>
                           \o FinishReasonOfFirst(Received)
                           \o <<". This often relates to safety settings.">>)

\* C16 witness: the first candidate stopped for MAX_TOKENS without an image,
\* a later one carries an image and stopped for SAFETY; the call failed and
\* names MAX_TOKENS.
C16_Witness ==
    /\ ImageDone
    /\ ~HasBlockReason(Received)
    /\ ~HasInlineImage(Received)
    /\ LaterCandidateHasImage(Received)
    /\ HasAbnormalFinishReason(Received)
    /\ FinishReasonOfFirst(Received) = <<"MAX_TOKENS">>
    /\ IsAbnormalFinish(outcome)
    /\ Contains(outcome.value, <<"MAX_TOKENS">>)
    /\ ~Contains(outcome.value, <<"SAFETY">>)

\* C17 as claimed: in detectObjects a non-blocked response whose text is
\* absent returns an empty sequence, as empty text does.
C17_AbsentTextIsEmpty ==
    (DetectDone /\ ~HasBlockReason(Received) /\ Received.text = None) =>
        outcome = Returned(<<>>)

\* The operation ended because fileToPart rejected
FailedBeforeCall ==
    /\ pc = "done"
    /\ outcome.status = "threw"
    /\ response = None
    /\ outcome.value \in FileToPartErrors

\* C15 as claimed: every invocation issues exactly one generateContent call;
\* the response is interpreted only after the call resolved and once; a
\* failure ends the invocation without a retry or a second call.
C15_ExactlyOneCall ==
    /\ pc = "done" => calls = 1
    /\ IsSome(response) => pc = "done" /\ calls = 1
    /\ pc # "done" => outcome = Pending
    /\ pc = "done" => ~ENABLED Next

\* C15, amended: an invocation issues at most one generateContent call, and
\* exactly one unless fileToPart rejects before the call is reached; the
\* response is interpreted only after the call resolved and once; a failure
\* ends the invocation without a retry or a second call.
C15_AtMostOneCall ==
    /\ calls <= 1
    /\ (pc = "done" /\ ~FailedBeforeCall) => calls = 1
    /\ FailedBeforeCall => calls = 0 /\ response = None
    /\ IsSome(response) => pc = "done" /\ calls = 1 /\ outcome # Pending
    /\ pc # "done" => outcome = Pending /\ response = None
    /\ pc = "done" => ~ENABLED Next

\* C15 witness: an interpretation failure after the one call, with nothing
\* left to do.
C15_Witness ==
    /\ pc = "done"
    /\ calls = 1
    /\ IsSome(response)
    /\ outcome.status = "threw"
    /\ ~ENABLED Next

----------------------------------------------------------------------------
(* BackgroundPanel, the gradient panel: a preset gallery, a custom prompt  *)
(* and an apply button                                                     *)

VARIABLES selectedPresetPrompt, customPrompt, isLoading, applied, lastInput

gradientVars == <<selectedPresetPrompt, customPrompt, isLoading, applied, lastInput>>

MaxPromptLen == 2

\* presets[i].prompt
PresetPrompts ==
    {Str("a beautiful sunset gradient from orange to deep purple"),
     Str("a deep ocean gradient from dark blue to turquoise"),
     Str("a lush forest gradient from dark green to a light, misty green"),
     Str("an 80s synthwave gradient from neon pink to electric blue"),
     Str("a soft, dreamy pastel gradient from light pink to baby blue"),
     Str("a dark galaxy gradient from deep space black to cosmic purple")}

\* e.target.value of the text input
CustomTexts == Strings({" ", "r"}, MaxPromptLen)

\* useState(null), useState(''); nothing applied and nothing entered yet
GradientInit ==
    /\ selectedPresetPrompt = None
    /\ customPrompt = EmptyString
    /\ isLoading = FALSE
    /\ applied = None
    /\ lastInput = None

\* selectedPresetPrompt || customPrompt
activePrompt ==
    IF TruthyString(selectedPresetPrompt)
    THEN Get(selectedPresetPrompt)
    ELSE customPrompt

\* Mutant: a preset click leaves the custom prompt as it is
PresetClickState_KeepsCustom(prompt) ==
    /\ selectedPresetPrompt' = Some(prompt)
    /\ UNCHANGED customPrompt

\* setSelectedPresetPrompt(prompt); setCustomPrompt('')
PresetClickState(prompt) ==
    /\ selectedPresetPrompt' = Some(prompt)
    /\ customPrompt' = EmptyString

\* A preset button is clicked; the buttons are disabled while loading
handlePresetClick ==
    /\ ~isLoading
    /\ \E prompt \in PresetPrompts :
        /\ PresetClickState(prompt)
        /\ lastInput' = Some(prompt)
    /\ UNCHANGED <<isLoading, applied>>

\* The text input changes; it is disabled while loading
handleCustomChange ==
    /\ ~isLoading
    /\ \E value \in CustomTexts :
        /\ value # customPrompt
        /\ customPrompt' = value
        /\ selectedPresetPrompt' = None
        /\ lastInput' = Some(value)
    /\ UNCHANGED <<isLoading, applied>>

\* The apply button is rendered when activePrompt is truthy and is disabled
\* when isLoading || !activePrompt.trim()
ApplyButtonEnabled ==
    /\ activePrompt # EmptyString
    /\ ~isLoading
    /\ Trim(activePrompt) # EmptyString

\* The apply button is clicked: if (activePrompt) onApplyBackgroundEffect(...).
\* applied records the argument and the latest input at the time of the call.
handleApply ==
    /\ ApplyButtonEnabled
    /\ IF activePrompt # EmptyString
       THEN applied' = Some([prompt |-> activePrompt, input |-> lastInput])
       ELSE UNCHANGED applied
    /\ UNCHANGED <<selectedPresetPrompt, customPrompt, isLoading, lastInput>>

\* The parent renders the panel with another isLoading
SetIsLoading ==
    /\ isLoading' = ~isLoading
    /\ UNCHANGED <<selectedPresetPrompt, customPrompt, applied, lastInput>>

GradientNext ==
    \/ handlePresetClick
    \/ handleCustomChange
    \/ handleApply
    \/ SetIsLoading

\* C18: in the gradient BackgroundPanel the preset selection and the custom
\* prompt exclude each other (a selected preset implies an empty custom
\* prompt, and after a custom-text change no preset is selected), and
\* onApplyBackgroundEffect is only called with a non-empty prompt that is
\* the latest preset chosen or the latest custom text typed.
C18_PresetAndCustomExclusive ==
    /\ selectedPresetPrompt # None => customPrompt = <<>>
    /\ customPrompt # <<>> => selectedPresetPrompt = None
    /\ (lastInput # None /\ Get(lastInput) \in CustomTexts) =>
            selectedPresetPrompt = None /\ customPrompt = Get(lastInput)
    /\ (lastInput # None /\ Get(lastInput) \in PresetPrompts) =>
            selectedPresetPrompt = lastInput
    /\ applied # None =>
            /\ Get(applied).prompt # <<>>
            /\ Get(applied).input = Some(Get(applied).prompt)

\* C18 witness: a custom text was applied, then a preset was chosen, which
\* emptied the custom prompt.
C18_Witness ==
    /\ applied # None
    /\ Get(applied).prompt = <<"r", "r">>
    /\ selectedPresetPrompt # None
    /\ customPrompt = <<>>

----------------------------------------------------------------------------
(* BackgroundPanel, the file-upload panel: a chosen background file and    *)
(* the object URL of its preview.  A File is a number from 1, an object    *)
(* URL is the number of its creation, 0 is null.                           *)

VARIABLES mounted, backgroundFile, previewUrl, effectDeps, cleanupUrl,
          effectPhase, createdUrls, revokeCount

uploadVars ==
    <<mounted, backgroundFile, previewUrl, effectDeps, cleanupUrl,
      effectPhase, createdUrls, revokeCount>>

MaxFiles == 4

MaxUrls == 4

\* After the first render and its effect: backgroundFile is null, so the
\* effect set previewUrl to null and returned no cleanup
UploadInit ==
    /\ mounted = TRUE
    /\ backgroundFile = 0
    /\ previewUrl = 0
    /\ effectDeps = 0
    /\ cleanupUrl = 0
    /\ effectPhase = "idle"
    /\ createdUrls = 0
    /\ revokeCount = <<>>

\* URL.revokeObjectURL(objectUrl)
RevokeObjectURL(url) == [revokeCount EXCEPT ![url] = @ + 1]

\* Mutant: the effect returns no cleanup function, nothing is revoked
RunCleanup_NoRevoke == UNCHANGED revokeCount

\* The cleanup the last effect returned, if it returned one
RunCleanup ==
    IF cleanupUrl # 0
    THEN revokeCount' = RevokeObjectURL(cleanupUrl)
    ELSE UNCHANGED revokeCount

\* The file input changes: files is empty or holds the chosen File.
\* setBackgroundFile with the File already held changes nothing.
handleFileChange ==
    /\ mounted
    /\ effectPhase = "idle"
    /\ \E files \in SeqsUpTo(1..MaxFiles, 1) :
        IF files # <<>>
        THEN backgroundFile' = files[1]
        ELSE UNCHANGED backgroundFile
    /\ UNCHANGED <<mounted, previewUrl, effectDeps, cleanupUrl, effectPhase,
                   createdUrls, revokeCount>>

\* backgroundFile changed since the effect last ran: React first runs the
\* cleanup of the previous effect
EffectCleanup ==
    /\ mounted
    /\ effectPhase = "idle"
    /\ backgroundFile # effectDeps
    /\ createdUrls < MaxUrls
    /\ RunCleanup
    /\ cleanupUrl' = 0
    /\ effectPhase' = "cleaned"
    /\ UNCHANGED <<mounted, backgroundFile, previewUrl, effectDeps, createdUrls>>

\* ... and then the effect itself
EffectBody ==
    /\ effectPhase = "cleaned"
    /\ IF backgroundFile = 0
       THEN /\ previewUrl' = 0
            /\ UNCHANGED <<cleanupUrl, createdUrls, revokeCount>>
       ELSE /\ createdUrls' = createdUrls + 1
            /\ revokeCount' = Append(revokeCount, 0)
            /\ previewUrl' = createdUrls + 1
            /\ cleanupUrl' = createdUrls + 1
    /\ effectDeps' = backgroundFile
    /\ effectPhase' = "idle"
    /\ UNCHANGED <<mounted, backgroundFile>>

\* The panel is unmounted: React runs the cleanup of the last effect
Unmount ==
    /\ mounted
    /\ effectPhase = "idle"
    /\ mounted' = FALSE
    /\ RunCleanup
    /\ cleanupUrl' = 0
    /\ UNCHANGED <<backgroundFile, previewUrl, effectDeps, effectPhase, createdUrls>>

UploadNext ==
    \/ handleFileChange
    \/ EffectCleanup
    \/ EffectBody
    \/ Unmount

\* The object URLs created and not revoked
UnrevokedUrls == {u \in 1..createdUrls : revokeCount[u] = 0}

\* C19: in the file-upload BackgroundPanel no object URL is revoked twice,
\* at most one created URL is unrevoked at any time, the URL of the previous
\* file is revoked before the URL of the next file is created, and after
\* unmount every created URL has been revoked exactly once.
C19_PreviewUrlsRevoked ==
    /\ \A u \in 1..createdUrls : revokeCount[u] <= 1
    /\ Cardinality(UnrevokedUrls) <= 1
    /\ UnrevokedUrls \subseteq {createdUrls}
    /\ effectPhase = "cleaned" => UnrevokedUrls = {}
    /\ ~mounted => \A u \in 1..createdUrls : revokeCount[u] = 1

\* C19 witness: three previews were created and the panel was unmounted.
C19_Witness ==
    /\ ~mounted
    /\ createdUrls = 3
    /\ revokeCount = <<1, 1, 1>>

----------------------------------------------------------------------------
(* Specifications: the service and the two panels share no state *)

allVars == <<vars, gradientVars, uploadVars>>

AllInit == Init /\ GradientInit /\ UploadInit

\* A step of an operation of the service: a disjunct of Next
ServiceStep ==
    \/ FileToPartRejected /\ UNCHANGED <<gradientVars, uploadVars>>
    \/ generateEditedImage /\ UNCHANGED <<gradientVars, uploadVars>>
    \/ generateEditedImageResolved /\ UNCHANGED <<gradientVars, uploadVars>>
    \/ generateFilteredImage /\ UNCHANGED <<gradientVars, uploadVars>>
    \/ generateFilteredImageResolved /\ UNCHANGED <<gradientVars, uploadVars>>
    \/ generateAdjustedImage /\ UNCHANGED <<gradientVars, uploadVars>>
    \/ generateAdjustedImageResolved /\ UNCHANGED <<gradientVars, uploadVars>>
    \/ compositeWithBackground /\ UNCHANGED <<gradientVars, uploadVars>>
    \/ compositeWithBackgroundResolved /\ UNCHANGED <<gradientVars, uploadVars>>
    \/ upscaleImage /\ UNCHANGED <<gradientVars, uploadVars>>
    \/ upscaleImageResolved /\ UNCHANGED <<gradientVars, uploadVars>>
    \/ detectObjects /\ UNCHANGED <<gradientVars, uploadVars>>
    \/ detectObjectsResolved /\ UNCHANGED <<gradientVars, uploadVars>>
    \/ GenerateContentRejected /\ UNCHANGED <<gradientVars, uploadVars>>

\* A step of the gradient panel: a disjunct of GradientNext
GradientStep ==
    \/ handlePresetClick /\ UNCHANGED <<vars, uploadVars>>
    \/ handleCustomChange /\ UNCHANGED <<vars, uploadVars>>
    \/ handleApply /\ UNCHANGED <<vars, uploadVars>>
    \/ SetIsLoading /\ UNCHANGED <<vars, uploadVars>>

\* A step of the file-upload panel: a disjunct of UploadNext
UploadStep ==
    \/ handleFileChange /\ UNCHANGED <<vars, gradientVars>>
    \/ EffectCleanup /\ UNCHANGED <<vars, gradientVars>>
    \/ EffectBody /\ UNCHANGED <<vars, gradientVars>>
    \/ Unmount /\ UNCHANGED <<vars, gradientVars>>

Spec == AllInit /\ [][ServiceStep]_allVars

GradientSpec == AllInit /\ [][GradientStep]_allVars

UploadSpec == AllInit /\ [][UploadStep]_allVars

====
